---- MODULE Spec2Model ----
(***************************************************************************)
(* The Pomodoro timer of src/script.js as a state machine: the timerState  *)
(* object, localStorage, the two duration inputs, the setInterval tick     *)
(* loops and the setTimeout auto-start callbacks, driven by the click and  *)
(* change handlers and by a wall clock.                                     *)
(***************************************************************************)
EXTENDS Integers, Sequences, FiniteSets, TLC

(***************************************************************************)
(* Bounds of the exploration.                                               *)
(***************************************************************************)
\* the clock is observed over this many one-minute periods after page load
MaxPeriods == 1
\* at most this many setInterval loops are alive at once
MaxIntervals == 2
\* at most this many calls of completeTimer in one run
MaxCompletions == 2
\* the durations typed into the inputs of the persistence checks go up to
\* this many minutes
MaxMinutes == 11

(***************************************************************************)
(* JavaScript values: a number, NaN or null.                                *)
(***************************************************************************)
Num(n) == [t |-> "num", v |-> n]
NaN == [t |-> "nan", v |-> 0]
Null == [t |-> "null", v |-> 0]
IsNum(x) == x.t = "num"

\* ToNumber: null converts to 0 in arithmetic
ToNumber(x) == IF x.t = "null" THEN Num(0) ELSE x
\* a - b, a + b, a * b: NaN is contagious
Sub(a, b) ==
  LET x == ToNumber(a)
      y == ToNumber(b)
  IN  IF IsNum(x) /\ IsNum(y) THEN Num(x.v - y.v) ELSE NaN
Add(a, b) ==
  LET x == ToNumber(a)
      y == ToNumber(b)
  IN  IF IsNum(x) /\ IsNum(y) THEN Num(x.v + y.v) ELSE NaN
Mul(a, b) ==
  LET x == ToNumber(a)
      y == ToNumber(b)
  IN  IF IsNum(x) /\ IsNum(y) THEN Num(x.v * y.v) ELSE NaN
\* x || 0: null, NaN and 0 are falsy
OrZero(x) == IF IsNum(x) /\ x.v # 0 THEN x ELSE Num(0)
\* Math.floor(x / k) for a positive k
FloorDiv(x, k) == IF IsNum(ToNumber(x)) THEN Num(ToNumber(x).v \div k) ELSE NaN
\* Math.max(0, x): NaN if x is NaN
MathMax0(x) ==
  LET y == ToNumber(x)
  IN  IF IsNum(y) THEN (IF y.v > 0 THEN y ELSE Num(0)) ELSE NaN
\* x === 0
IsZero(x) == IsNum(x) /\ x.v = 0
\* x > 0
IsPositive(x) == IsNum(x) /\ x.v > 0

(***************************************************************************)
(* Strings are sequences of one-character strings.                          *)
(***************************************************************************)
DigitChars == <<"0", "1", "2", "3", "4", "5", "6", "7", "8", "9">>
IsDigit(c) == \E i \in 1..Len(DigitChars) : DigitChars[i] = c
DigitVal(c) == (CHOOSE i \in 1..Len(DigitChars) : DigitChars[i] = c) - 1

\* the number of leading decimal digits of s
RECURSIVE LeadingDigits(_)
LeadingDigits(s) ==
  IF s # <<>> /\ IsDigit(Head(s)) THEN 1 + LeadingDigits(Tail(s)) ELSE 0

\* the value of the digit string s
RECURSIVE DigitsValue(_)
DigitsValue(s) ==
  IF s = <<>> THEN 0
  ELSE 10 * DigitsValue(SubSeq(s, 1, Len(s) - 1)) + DigitVal(s[Len(s)])

\* Number.parseInt(s): an optional sign, then the longest prefix of digits;
\* NaN when there is no digit
ParseInt(s) ==
  LET signed == s # <<>> /\ Head(s) \in {"-", "+"}
      body == IF signed THEN Tail(s) ELSE s
      n == LeadingDigits(body)
      mag == DigitsValue(SubSeq(body, 1, n))
  IN  IF n = 0 THEN NaN
      ELSE IF signed /\ Head(s) = "-" THEN Num(0 - mag) ELSE Num(mag)

\* the decimal digits of a natural number
RECURSIVE NatToString(_)
NatToString(n) ==
  IF n < 10 THEN <<DigitChars[n + 1]>>
  ELSE NatToString(n \div 10) \o <<DigitChars[(n % 10) + 1]>>

\* String(x) as setItem and the value setter apply it
JsString(x) ==
  IF x.t = "nan" THEN <<"N", "a", "N">>
  ELSE IF x.t = "null" THEN <<"n", "u", "l", "l">>
  ELSE IF x.v < 0 THEN <<"-">> \o NatToString(0 - x.v)
  ELSE NatToString(x.v)

(***************************************************************************)
(* Program constants.                                                       *)
(***************************************************************************)
SecondsPerMinute == 60
MsPerSecond == 1000
AutoStartDelay == 1000
DefaultFocusMinutes == 25
DefaultBreakMinutes == 5
SaveStatsPeriod == 10000

FocusKey == "pomodoroFocusDuration"
BreakKey == "pomodoroBreakDuration"
SessionsKey == "pomodoroSessionsCompleted"
TotalKey == "pomodoroTotalSeconds"

Keys == {FocusKey, BreakKey, SessionsKey, TotalKey}

\* a stored item: getItem gives null for a key that was never set
Absent == [has |-> FALSE, val |-> <<>>]
Item(s) == [has |-> TRUE, val |-> s]
EmptyStore == [k \in Keys |-> Absent]
\* what an earlier visit with one-minute settings and one focus session left
UsedStore ==
  [k \in Keys |->
     IF k = FocusKey THEN Item(<<"1">>)
     ELSE IF k = BreakKey THEN Item(<<"1">>)
     ELSE IF k = SessionsKey THEN Item(<<"1">>)
     ELSE Item(<<"6", "0">>)]
InitStores == {UsedStore}

\* what the store may hold under a duration key and under a statistics key
\* when the page loads: nothing, the empty string, text that is no number, or
\* a number, alone or followed by other text
StoredDurations == {Absent, Item(<<>>), Item(<<"a">>), Item(<<"3">>)}
StoredCounters ==
  {Absent, Item(<<>>), Item(<<"a">>), Item(<<"7", "x">>), Item(<<"1", "2", "0">>)}
LoadStores ==
  {st \in [Keys -> StoredDurations \cup StoredCounters] :
     /\ st[FocusKey] \in StoredDurations
     /\ st[BreakKey] \in StoredDurations
     /\ st[SessionsKey] \in StoredCounters
     /\ st[TotalKey] \in StoredCounters}

\* localStorage.getItem(k) || dflt, as the string parseInt and the value
\* setter see: null and "" are falsy
GetItemOr(store, k, dflt) ==
  IF store[k].has /\ store[k].val # <<>> THEN store[k].val ELSE JsString(Num(dflt))
\* localStorage.setItem(k, x)
SetItem(store, k, x) == [store EXCEPT ![k] = Item(JsString(x))]

\* what the user may type into the two duration inputs
FocusChoices == {<<"1">>, <<"2">>, <<"0">>, <<"a">>}
BreakChoices == {<<"1">>, <<"2">>, <<"-", "1">>}

\* Notification.permission, which the user may change in the browser at any time
Permissions == {"granted", "default", "denied"}
\* how notificationSound.play() may end
SoundOutcomes == {"ok", "throws", "rejected"}
\* how new Notification(...) / Notification.requestPermission() may end
CallOutcomes == {"ok", "throws"}

\* the instants at which Date.now() is read
ClockOffsets == {0, 600, 1000}
Period == SecondsPerMinute * MsPerSecond
Instants == {p * Period + o : p \in 0..MaxPeriods, o \in ClockOffsets}

VARIABLES
  \* timerState
  isRunning, isPaused, isBreak, timeRemaining, focusDuration, breakDuration,
  sessionsCompleted, totalSeconds, startTime, pausedTime,
  \* the page and the browser
  localStorage, focusInput, breakInput, inputsDisabled,
  timerIntervals,   \* the number of live setInterval loops
  pendingTicks,     \* those of them whose callback is due at this instant
  autoStarts,       \* the pending setTimeout callbacks, oldest first
  statsDue,         \* the saveStats interval is due at this instant
  now,              \* Date.now()
  \* history
  completions,      \* calls of completeTimer so far
  phaseRunMs,       \* time spent with isRunning since the countdown began
  resumed,          \* the countdown was resumed from a pause
  seg,              \* the run that began with a start from Idle
  sane              \* both durations have been positive numbers all along

timerVars ==
  <<isRunning, isPaused, isBreak, timeRemaining, focusDuration, breakDuration,
    sessionsCompleted, totalSeconds, startTime, pausedTime>>
pageVars ==
  <<localStorage, focusInput, breakInput, inputsDisabled,
    timerIntervals, pendingTicks, autoStarts, statsDue, now>>
histVars == <<completions, phaseRunMs, resumed, seg, sane>>
vars == <<timerVars, pageVars, histVars>>

\* the duration of the current phase (lines 82-84 and 190-192)
PhaseDuration == IF isBreak THEN breakDuration ELSE focusDuration

\* no such run is under way
NoSeg == [on |-> FALSE, fired |-> 0, firstAt |-> 0]

(***************************************************************************)
(* loadSettings, run once on DOMContentLoaded.                              *)
(***************************************************************************)
\* a loadSettings that takes the stored minutes for seconds
LoadedFocusMinutes(store) == ParseInt(GetItemOr(store, FocusKey, DefaultFocusMinutes))

LoadedFocus(store) == Mul(ParseInt(GetItemOr(store, FocusKey, DefaultFocusMinutes)), Num(SecondsPerMinute))
LoadedBreak(store) == Mul(ParseInt(GetItemOr(store, BreakKey, DefaultBreakMinutes)), Num(SecondsPerMinute))
LoadedSessions(store) == ParseInt(GetItemOr(store, SessionsKey, 0))
LoadedTotal(store) == ParseInt(GetItemOr(store, TotalKey, 0))

InitFrom(stores) ==
  /\ localStorage \in stores
  /\ isRunning = FALSE
  /\ isPaused = FALSE
  /\ isBreak = FALSE
  /\ startTime = Null
  /\ pausedTime = Null
  /\ focusInput = GetItemOr(localStorage, FocusKey, DefaultFocusMinutes)
  /\ breakInput = GetItemOr(localStorage, BreakKey, DefaultBreakMinutes)
  /\ focusDuration = LoadedFocus(localStorage)
  /\ breakDuration = LoadedBreak(localStorage)
  /\ timeRemaining = focusDuration
  /\ sessionsCompleted = LoadedSessions(localStorage)
  /\ totalSeconds = LoadedTotal(localStorage)
  /\ inputsDisabled = FALSE
  /\ timerIntervals = 0
  /\ pendingTicks = 0
  /\ autoStarts = <<>>
  /\ statsDue = FALSE
  /\ now = 0
  /\ completions = 0
  /\ phaseRunMs = 0
  /\ resumed = FALSE
  /\ seg = NoSeg
  /\ sane = (IsPositive(focusDuration) /\ IsPositive(breakDuration))

Init == InitFrom(InitStores)

(***************************************************************************)
(* The clock.                                                               *)
(***************************************************************************)
LaterInstants == {t \in Instants : t > now}
NextInstant == CHOOSE t \in LaterInstants : \A u \in LaterInstants : t <= u

\* time passes to the next instant, once the interval and timeout callbacks due
\* at this one have run; there every live interval (period 100 ms, line 99) is
\* due again
AdvanceClock ==
  /\ LaterInstants # {}
  /\ pendingTicks = 0
  /\ ~statsDue
  /\ \A i \in 1..Len(autoStarts) : autoStarts[i].due > now
  /\ now' = NextInstant
  /\ pendingTicks' = timerIntervals
  /\ statsDue' = (NextInstant % SaveStatsPeriod = 0)
  /\ phaseRunMs' = IF isRunning THEN phaseRunMs + (NextInstant - now) ELSE phaseRunMs
  /\ UNCHANGED <<timerVars, localStorage, focusInput, breakInput, inputsDisabled,
                 timerIntervals, autoStarts>>
  /\ UNCHANGED <<completions, resumed, seg, sane>>

(***************************************************************************)
(* startTimer (lines 61-100): the state it sets and the interval it makes.  *)
(***************************************************************************)
\* a startTimer that leaves isPaused as it is
StartTimerKeepsPaused ==
  IF isRunning
  THEN UNCHANGED <<isRunning, isPaused, startTime, inputsDisabled, timerIntervals>>
  ELSE /\ isRunning' = TRUE
       /\ isPaused' = isPaused
       /\ startTime' = Sub(Num(now), OrZero(pausedTime))
       /\ inputsDisabled' = TRUE
       /\ timerIntervals' = timerIntervals + 1

\* a startTimer without the guard of line 62
StartTimerUnguarded ==
  /\ isRunning' = TRUE
  /\ isPaused' = FALSE
  /\ startTime' = Sub(Num(now), OrZero(pausedTime))
  /\ inputsDisabled' = TRUE
  /\ timerIntervals' = timerIntervals + 1

StartTimer ==
  IF isRunning
  THEN UNCHANGED <<isRunning, isPaused, startTime, inputsDisabled, timerIntervals>>
  ELSE /\ isRunning' = TRUE
       /\ isPaused' = FALSE
       /\ startTime' = Sub(Num(now), OrZero(pausedTime))
       /\ inputsDisabled' = TRUE
       /\ timerIntervals' = timerIntervals + 1

\* togglePause (lines 105-116)
TogglePause ==
  IF ~isRunning
  THEN UNCHANGED <<isRunning, isPaused, pausedTime>>
  ELSE /\ isRunning' = FALSE
       /\ isPaused' = TRUE
       /\ pausedTime' = Sub(Num(now), startTime)

\* a resetTimer that restores the 25 minutes of the timerState literal
ResetTimerToDefault ==
  /\ isRunning' = FALSE
  /\ isPaused' = FALSE
  /\ startTime' = Null
  /\ pausedTime' = Null
  /\ timeRemaining' = Num(DefaultFocusMinutes * SecondsPerMinute)
  /\ inputsDisabled' = FALSE

\* resetTimer (lines 121-136)
ResetTimer ==
  /\ isRunning' = FALSE
  /\ isPaused' = FALSE
  /\ startTime' = Null
  /\ pausedTime' = Null
  /\ timeRemaining' = focusDuration
  /\ inputsDisabled' = FALSE

\* the pending auto-starts, each marked with a command issued while it waits
Marked(c) == [i \in 1..Len(autoStarts) |-> [autoStarts[i] EXCEPT !.cmds = c]]

\* a segment begins: a start from Idle with the full duration of the phase left
NewSeg ==
  IF ~isRunning /\ ~isPaused /\ timeRemaining = PhaseDuration
     /\ IsNum(timeRemaining) /\ timeRemaining.v > 0
  THEN [on |-> TRUE, fired |-> 0, firstAt |-> 0]
  ELSE NoSeg

\* a click on Start
Start ==
  /\ isRunning \/ timerIntervals < MaxIntervals
  /\ StartTimer
  /\ autoStarts' = Marked("started")
  /\ resumed' = (resumed \/ (~isRunning /\ isPaused))
  /\ seg' = NewSeg
  /\ UNCHANGED <<isBreak, timeRemaining, focusDuration, breakDuration,
                 sessionsCompleted, totalSeconds, pausedTime>>
  /\ UNCHANGED <<localStorage, focusInput, breakInput, pendingTicks, statsDue, now>>
  /\ UNCHANGED <<completions, phaseRunMs, sane>>

\* a click on Pause
Pause ==
  /\ TogglePause
  /\ autoStarts' = IF isRunning THEN Marked("stopped") ELSE autoStarts
  /\ seg' = NoSeg
  /\ UNCHANGED <<isBreak, timeRemaining, focusDuration, breakDuration,
                 sessionsCompleted, totalSeconds, startTime>>
  /\ UNCHANGED <<localStorage, focusInput, breakInput, inputsDisabled,
                 timerIntervals, pendingTicks, statsDue, now>>
  /\ UNCHANGED <<completions, phaseRunMs, resumed, sane>>

\* a click on Reset
Reset ==
  /\ ResetTimer
  /\ autoStarts' = Marked("stopped")
  /\ seg' = NoSeg
  /\ phaseRunMs' = 0
  /\ resumed' = FALSE
  /\ UNCHANGED <<isBreak, focusDuration, breakDuration, sessionsCompleted, totalSeconds>>
  /\ UNCHANGED <<localStorage, focusInput, breakInput, timerIntervals,
                 pendingTicks, statsDue, now>>
  /\ UNCHANGED <<completions, sane>>

\* the setTimeout callback of completeTimer (lines 169-171) comes due
AutoStart ==
  /\ autoStarts # <<>>
  /\ now >= Head(autoStarts).due
  /\ isRunning \/ timerIntervals < MaxIntervals
  /\ StartTimer
  /\ autoStarts' = Tail(autoStarts)
  /\ resumed' = (resumed \/ (~isRunning /\ isPaused))
  /\ UNCHANGED <<isBreak, timeRemaining, focusDuration, breakDuration,
                 sessionsCompleted, totalSeconds, pausedTime>>
  /\ UNCHANGED <<localStorage, focusInput, breakInput, pendingTicks, statsDue, now>>
  /\ UNCHANGED <<completions, phaseRunMs, seg, sane>>

(***************************************************************************)
(* The tick of a live interval (lines 74-99) and completeTimer.             *)
(***************************************************************************)
\* lines 81-89: the remaining seconds as the tick computes them
TickRemaining ==
  MathMax0(Sub(PhaseDuration, FloorDiv(Sub(Num(now), startTime), MsPerSecond)))

\* showBrowserNotification (lines 320-336): the browser call it makes
NotifCall(permission) ==
  IF permission = "granted" THEN "construct"
  ELSE IF permission # "denied" THEN "request"
  ELSE "none"

\* new Notification(...) is called outside any try block: an exception of the
\* constructor leaves completeTimer at line 329
NotifThrows(permission, call) == NotifCall(permission) = "construct" /\ call = "throws"

\* completeTimer (lines 141-172), entered with timeRemaining = 0;
\* playNotification (lines 276-286) catches every failure of the sound
CompleteTimer(permission, call) ==
  IF NotifThrows(permission, call)
  THEN /\ timeRemaining' = Num(0)
       /\ UNCHANGED <<isBreak, sessionsCompleted, totalSeconds, pausedTime, autoStarts>>
  ELSE /\ IF ~isBreak
          THEN /\ sessionsCompleted' = Add(sessionsCompleted, Num(1))
               /\ totalSeconds' = Add(totalSeconds, focusDuration)
               /\ isBreak' = TRUE
               /\ timeRemaining' = breakDuration
          ELSE /\ sessionsCompleted' = sessionsCompleted
               /\ totalSeconds' = Add(totalSeconds, breakDuration)
               /\ isBreak' = FALSE
               /\ timeRemaining' = focusDuration
       /\ pausedTime' = Null
       /\ autoStarts' = Append(autoStarts, [due |-> now + AutoStartDelay, cmds |-> "none"])

\* the segment's count of the completions that follow its start; a second one
\* counts when it comes before the auto-start of the first could have run
SegAfterTick(done) ==
  IF ~seg.on \/ ~done THEN seg
  ELSE IF seg.fired = 0 THEN [seg EXCEPT !.fired = 1, !.firstAt = now]
  ELSE IF now < seg.firstAt + AutoStartDelay THEN [seg EXCEPT !.fired = 2]
  ELSE seg

\* the callback of a live interval finds the timer stopped (lines 75-78)
TickStale ==
  /\ pendingTicks > 0
  /\ ~isRunning
  /\ timerIntervals' = timerIntervals - 1
  /\ pendingTicks' = pendingTicks - 1
  /\ UNCHANGED <<timerVars, histVars>>
  /\ UNCHANGED <<localStorage, focusInput, breakInput, inputsDisabled,
                 autoStarts, statsDue, now>>

\* a counting callback without the check of lines 75-78
TickCountUnguarded ==
  /\ pendingTicks > 0
  /\ ~IsZero(TickRemaining)
  /\ timeRemaining' = TickRemaining
  /\ pendingTicks' = pendingTicks - 1
  /\ UNCHANGED <<isRunning, isPaused, isBreak, focusDuration, breakDuration,
                 sessionsCompleted, totalSeconds, startTime, pausedTime>>
  /\ UNCHANGED <<localStorage, focusInput, breakInput, inputsDisabled,
                 timerIntervals, autoStarts, statsDue, now>>
  /\ UNCHANGED histVars

\* the callback of a live interval counts down (lines 80-92)
TickCount ==
  /\ pendingTicks > 0
  /\ isRunning
  /\ ~IsZero(TickRemaining)
  /\ timeRemaining' = TickRemaining
  /\ pendingTicks' = pendingTicks - 1
  /\ UNCHANGED <<isRunning, isPaused, isBreak, focusDuration, breakDuration,
                 sessionsCompleted, totalSeconds, startTime, pausedTime>>
  /\ UNCHANGED <<localStorage, focusInput, breakInput, inputsDisabled,
                 timerIntervals, autoStarts, statsDue, now>>
  /\ UNCHANGED histVars

\* the callback of a live interval reaches 0 (lines 95-98): the sound ends as
\* sound, and with this permission the browser's notification call ends as call
TickDone(sound, permission, call) ==
  /\ pendingTicks > 0
  /\ isRunning
  /\ IsZero(TickRemaining)
  /\ completions < MaxCompletions
  /\ timerIntervals' = timerIntervals - 1
  /\ pendingTicks' = pendingTicks - 1
  /\ CompleteTimer(permission, call)
  /\ completions' = completions + 1
  /\ phaseRunMs' = IF NotifThrows(permission, call) THEN phaseRunMs ELSE 0
  /\ resumed' = (resumed /\ NotifThrows(permission, call))
  /\ seg' = SegAfterTick(TRUE)
  /\ UNCHANGED <<isRunning, isPaused, focusDuration, breakDuration, startTime>>
  /\ UNCHANGED <<localStorage, focusInput, breakInput, inputsDisabled, statsDue, now>>
  /\ UNCHANGED sane

Tick ==
  \/ TickStale
  \/ TickCount
  \/ \E sound \in SoundOutcomes, permission \in Permissions, call \in CallOutcomes :
       TickDone(sound, permission, call)

(***************************************************************************)
(* Settings and statistics.                                                 *)
(***************************************************************************)
\* saveSettings (lines 222-235) with the two inputs holding f and b
SaveSettings(f, b) ==
  /\ localStorage' = SetItem(SetItem(localStorage, FocusKey, ParseInt(f)),
                             BreakKey, ParseInt(b))
  /\ focusDuration' = Mul(ParseInt(f), Num(SecondsPerMinute))
  /\ breakDuration' = Mul(ParseInt(b), Num(SecondsPerMinute))
  /\ timeRemaining' = Mul(ParseInt(f), Num(SecondsPerMinute))

\* the user changes the focus input (line 383); a disabled input takes no change
ChangeFocus(s) ==
  /\ ~inputsDisabled
  /\ s # focusInput
  /\ focusInput' = s
  /\ SaveSettings(s, breakInput)
  /\ seg' = NoSeg
  /\ UNCHANGED <<isRunning, isPaused, isBreak, sessionsCompleted, totalSeconds,
                 startTime, pausedTime>>
  /\ UNCHANGED <<breakInput, inputsDisabled, timerIntervals, pendingTicks,
                 autoStarts, statsDue, now>>
  /\ sane' = (sane /\ IsPositive(focusDuration') /\ IsPositive(breakDuration'))
  /\ UNCHANGED <<completions, phaseRunMs, resumed>>

\* the user changes the break input (line 384)
ChangeBreak(s) ==
  /\ ~inputsDisabled
  /\ s # breakInput
  /\ breakInput' = s
  /\ SaveSettings(focusInput, s)
  /\ seg' = NoSeg
  /\ UNCHANGED <<isRunning, isPaused, isBreak, sessionsCompleted, totalSeconds,
                 startTime, pausedTime>>
  /\ UNCHANGED <<focusInput, inputsDisabled, timerIntervals, pendingTicks,
                 autoStarts, statsDue, now>>
  /\ sane' = (sane /\ IsPositive(focusDuration') /\ IsPositive(breakDuration'))
  /\ UNCHANGED <<completions, phaseRunMs, resumed>>

\* saveStats (lines 261-267), run every 10 s (line 387)
SaveStats ==
  /\ statsDue
  /\ statsDue' = FALSE
  /\ localStorage' = SetItem(SetItem(localStorage, SessionsKey, sessionsCompleted),
                             TotalKey, totalSeconds)
  /\ UNCHANGED timerVars
  /\ UNCHANGED <<focusInput, breakInput, inputsDisabled, timerIntervals,
                 pendingTicks, autoStarts, now>>
  /\ UNCHANGED <<completions, phaseRunMs, resumed, seg, sane>>

\* the page is left and opened again: saveStats on beforeunload (line 390),
\* then a new timerState (lines 6-17) and loadSettings (lines 38-39, 240-256);
\* the intervals and timeouts of the old page are gone
Reload ==
  /\ localStorage' = SetItem(SetItem(localStorage, SessionsKey, sessionsCompleted),
                             TotalKey, totalSeconds)
  /\ isRunning' = FALSE
  /\ isPaused' = FALSE
  /\ isBreak' = FALSE
  /\ startTime' = Null
  /\ pausedTime' = Null
  /\ focusInput' = GetItemOr(localStorage', FocusKey, DefaultFocusMinutes)
  /\ breakInput' = GetItemOr(localStorage', BreakKey, DefaultBreakMinutes)
  /\ focusDuration' = LoadedFocus(localStorage')
  /\ breakDuration' = LoadedBreak(localStorage')
  /\ timeRemaining' = LoadedFocus(localStorage')
  /\ sessionsCompleted' = LoadedSessions(localStorage')
  /\ totalSeconds' = LoadedTotal(localStorage')
  /\ inputsDisabled' = FALSE
  /\ timerIntervals' = 0
  /\ pendingTicks' = 0
  /\ autoStarts' = <<>>
  /\ statsDue' = FALSE
  /\ completions' = 0
  /\ phaseRunMs' = 0
  /\ resumed' = FALSE
  /\ seg' = NoSeg
  /\ sane' = (IsPositive(focusDuration') /\ IsPositive(breakDuration'))
  /\ UNCHANGED now

Next ==
  \/ AdvanceClock
  \/ Start
  \/ Pause
  \/ Reset
  \/ AutoStart
  \/ Tick
  \/ \E s \in FocusChoices : ChangeFocus(s)
  \/ \E s \in BreakChoices : ChangeBreak(s)
  \/ SaveStats

Spec == Init /\ [][Next]_vars

(***************************************************************************)
(* Persistence: the page loaded from any store, the settings changed and   *)
(* the page reloaded.                                                       *)
(***************************************************************************)
\* what the user may type into a duration input: 0 to MaxMinutes, a negative
\* number, or text that is no number
PersistInputs ==
  {JsString(Num(n)) : n \in 0..MaxMinutes} \cup {<<"-", "1">>, <<"a">>}

PersistInit == InitFrom(LoadStores)

PersistNext ==
  \/ \E s \in PersistInputs : ChangeFocus(s)
  \/ \E s \in PersistInputs : ChangeBreak(s)
  \/ Reload

PersistSpec == PersistInit /\ [][PersistNext]_vars

(***************************************************************************)
(* The claims.                                                              *)
(***************************************************************************)
\* the duration of the phase that the next state is in
NextPhaseDuration == IF isBreak' THEN breakDuration' ELSE focusDuration'

\* a step that calls completeTimer
Completes == completions' = completions + 1

\* both durations are, and have always been, what the data model of the timer
\* asks for: positive numbers
PositiveDurations == sane

\* C1: when the auto-start of a completion comes due and no start, pause or
\* reset was issued while it waited, the timer is Running afterwards with a
\* live tick loop that counts the new phase down.
C1_AutoStartTakesEffect ==
  [][(PositiveDurations /\ AutoStart /\ Head(autoStarts).cmds = "none")
       => (isRunning' /\ timerIntervals' >= 1)]_vars

\* C2: a run started from Idle with the full duration d > 0 of the phase left,
\* and no other command issued, calls completeTimer exactly once: never a
\* second time before the auto-start of the first could have run, and at the
\* first tick that finds d seconds elapsed.
C2_ExactlyOneCompletion ==
  [][/\ (PositiveDurations /\ seg'.on) => seg'.fired <= 1
     /\ (PositiveDurations /\ seg.on /\ seg.fired = 0 /\ isRunning /\ Tick
           /\ now - startTime.v >= PhaseDuration.v * MsPerSecond)
          => (Completes /\ seg'.fired = 1)]_vars

\* C3: pause and resume are free of drift: once the countdown of a phase was
\* resumed from a pause, the elapsed time it uses is the time the timer has
\* spent Running in this phase, whatever the length of the pause, so that the
\* phase needs its full duration of Running time.
C3_ResumeDriftFree ==
  (PositiveDurations /\ isRunning /\ resumed) => (now - startTime.v = phaseRunMs)

\* C4: no early completion: completeTimer is called for a phase only after
\* the timer has spent the phase's full duration Running within that phase.
C4_NoEarlyCompletion ==
  [][(PositiveDurations /\ Completes)
       => phaseRunMs >= PhaseDuration.v * MsPerSecond]_vars

\* C5: reset leaves the timer neither running nor paused, with timeRemaining
\* the full duration of the current phase.
C5_ResetRestoresPhase ==
  [][(PositiveDurations /\ Reset) => (~isRunning' /\ ~isPaused' /\ timeRemaining' = NextPhaseDuration)]_vars

\* C6: every call of completeTimer flips the phase and sets timeRemaining to
\* the duration of the new phase; sessionsCompleted grows by exactly 1 when a
\* Focus phase completes and is left alone by every other step.
C6_PhaseAlternation ==
  [][/\ (PositiveDurations /\ Completes) =>
          /\ isBreak' = ~isBreak
          /\ timeRemaining' = NextPhaseDuration
          /\ sessionsCompleted' =
               IF isBreak THEN sessionsCompleted ELSE Add(sessionsCompleted, Num(1))
     /\ ~Completes => sessionsCompleted' = sessionsCompleted]_vars

\* C7: at most one tick loop is live.
C7_OneTickLoop == PositiveDurations => timerIntervals <= 1

\* C8: an auto-start that comes due after a pause or reset was issued while it
\* waited, and no start since, leaves the timer not running.
C8_StaleAutoStartIgnored ==
  [][(PositiveDurations /\ AutoStart /\ Head(autoStarts).cmds = "stopped") => ~isRunning']_vars

\* C9: when a phase completes and the sound or the system notification fails,
\* completeTimer still updates the statistics, flips the phase, sets
\* timeRemaining to the new phase's duration and schedules the auto-start.
C9_NotificationFailureSwallowed ==
  [][\A sound \in SoundOutcomes, permission \in Permissions, call \in CallOutcomes :
       (PositiveDurations /\ TickDone(sound, permission, call)
          /\ (sound # "ok" \/ NotifThrows(permission, call)))
       => /\ isBreak' = ~isBreak
          /\ totalSeconds' = Add(totalSeconds, PhaseDuration)
          /\ timeRemaining' = NextPhaseDuration
          /\ Len(autoStarts') = Len(autoStarts) + 1]_vars

\* a duration input that is not a positive number
InvalidInput(s) == ~IsNum(ParseInt(s)) \/ ParseInt(s).v <= 0

\* C10: a settings change with a non-positive or non-numeric duration leaves
\* focusDuration, breakDuration, timeRemaining and the stored durations as
\* they were.
C10_InvalidConfigRejected ==
  [][(\/ \E s \in FocusChoices : ChangeFocus(s) /\ (InvalidInput(s) \/ InvalidInput(breakInput))
      \/ \E s \in BreakChoices : ChangeBreak(s) /\ (InvalidInput(s) \/ InvalidInput(focusInput)))
       => /\ focusDuration' = focusDuration
          /\ breakDuration' = breakDuration
          /\ timeRemaining' = timeRemaining
          /\ localStorage'[FocusKey] = localStorage[FocusKey]
          /\ localStorage'[BreakKey] = localStorage[BreakKey]]_vars

\* a stored item for which load() is to fall back to the default: the key is
\* absent, or its value does not parse as an integer
Unparsable(item) == ~item.has \/ ~IsNum(ParseInt(item.val))

\* C11: loadSettings yields the default (1500 s focus, 300 s break, 0
\* sessions, 0 total seconds) for every key that is absent from the store or
\* holds a value that is no integer, each key independently of the others.
C11_LoadDefaults ==
  [][Reload =>
       /\ Unparsable(localStorage'[FocusKey])
            => focusDuration' = Num(DefaultFocusMinutes * SecondsPerMinute)
       /\ Unparsable(localStorage'[BreakKey])
            => breakDuration' = Num(DefaultBreakMinutes * SecondsPerMinute)
       /\ Unparsable(localStorage'[SessionsKey]) => sessionsCompleted' = Num(0)
       /\ Unparsable(localStorage'[TotalKey]) => totalSeconds' = Num(0)]_vars

\* C12: the timer is never running and paused at once, so that exactly one
\* of Idle (neither), Running and Paused holds in every reachable state.
C12_RunStateExclusive == ~(isRunning /\ isPaused)

\* the timer was paused after a phase had completed
C12_Witness == isPaused /\ ~isRunning /\ completions >= 1

\* C13: sessionsCompleted and totalSeconds are changed by no step other than
\* a call of completeTimer, and a call of completeTimer never decreases them.
C13_CountersMonotone ==
  [][/\ ~Completes
          => (sessionsCompleted' = sessionsCompleted /\ totalSeconds' = totalSeconds)
     /\ (Completes /\ IsNum(sessionsCompleted) /\ IsNum(totalSeconds))
          => /\ IsNum(sessionsCompleted')
             /\ sessionsCompleted'.v >= sessionsCompleted.v
             /\ IsNum(totalSeconds')
             /\ totalSeconds'.v >= totalSeconds.v]_vars

\* the larger of the two durations
MaxDuration ==
  IF focusDuration.v >= breakDuration.v THEN focusDuration.v ELSE breakDuration.v

\* C14: in every reachable state in which focusDuration and breakDuration are
\* positive, timeRemaining is a number from 0 to the larger of the two.
C14_RemainingInRange ==
  (IsPositive(focusDuration) /\ IsPositive(breakDuration))
    => (IsNum(timeRemaining) /\ 0 <= timeRemaining.v /\ timeRemaining.v <= MaxDuration)

\* in a Break phase of 60 s the timer was reset and shows the 120 s of the
\* longer focus duration
C14_Witness ==
  /\ isBreak
  /\ ~isRunning
  /\ focusDuration = Num(2 * SecondsPerMinute)
  /\ breakDuration = Num(SecondsPerMinute)
  /\ timeRemaining = focusDuration

\* C15: the progress fraction timeRemaining / PhaseDuration lies in [0, 1]:
\* timeRemaining is never below 0 and never above the duration of the current
\* phase, also after a reset or a settings change in a Break phase.
C15_ProgressInUnitRange ==
  PositiveDurations
    => (IsNum(timeRemaining) /\ 0 <= timeRemaining.v
          /\ timeRemaining.v <= PhaseDuration.v)

\* C16: a start issued while the timer is running changes no field of
\* timerState and makes no tick loop.
C16_StartIdempotent ==
  [][(Start /\ isRunning)
       => (UNCHANGED timerVars /\ timerIntervals' = timerIntervals
             /\ pendingTicks' = pendingTicks)]_vars

\* Start was clicked while the timer was running: the auto-start of the one
\* completion is still pending and saw a start, yet no tick loop is live
C16_Witness ==
  /\ isRunning
  /\ completions = 1
  /\ timerIntervals = 0
  /\ Len(autoStarts) = 1
  /\ autoStarts[1].cmds = "started"

\* C17: a tick callback that finds the timer not running changes no field of
\* timerState and cancels its own loop.
C17_StoppedTickFrozen ==
  [][(Tick /\ ~isRunning)
       => (UNCHANGED timerVars /\ timerIntervals' = timerIntervals - 1)]_vars

\* the timer was paused before any completion and the loop of the paused run
\* has cancelled itself
C17_Witness ==
  /\ isPaused
  /\ ~isRunning
  /\ completions = 0
  /\ timerIntervals = 0
  /\ now > 0

\* C18: every call of completeTimer adds the duration of the phase that
\* completes to totalSeconds: focusDuration for Focus, breakDuration for
\* Break.
C18_StatsAccounting ==
  [][(PositiveDurations /\ Completes)
       => totalSeconds' = Add(totalSeconds, PhaseDuration)]_vars

\* C19: a counting tick never shows more than timeRemaining held before it:
\* not from one tick to the next, and not at the first tick after a start,
\* where timeRemaining is what the reset or the pause before the start left.
C19_MonotoneCountdown ==
  [][(PositiveDurations /\ TickCount /\ IsNum(timeRemaining))
       => (IsNum(timeRemaining') /\ timeRemaining'.v <= timeRemaining.v)]_vars

\* the store holds what saveSettings wrote for the two inputs
SettingsSaved ==
  /\ localStorage[FocusKey] = Item(JsString(ParseInt(focusInput)))
  /\ localStorage[BreakKey] = Item(JsString(ParseInt(breakInput)))

\* C20: persistence round trip. After a settings change to positive minutes
\* f and b, leaving and loading the page yields focusDuration = 60 * f and
\* breakDuration = 60 * b; and when sessionsCompleted and totalSeconds are
\* numbers >= 0, saveStats followed by loadSettings restores exactly them.
C20_PersistenceRoundTrip ==
  [][Reload =>
       /\ (SettingsSaved /\ IsPositive(ParseInt(focusInput))
              /\ IsPositive(ParseInt(breakInput)))
            => /\ focusDuration' = Num(SecondsPerMinute * ParseInt(focusInput).v)
               /\ breakDuration' = Num(SecondsPerMinute * ParseInt(breakInput).v)
       /\ (IsNum(sessionsCompleted) /\ sessionsCompleted.v >= 0)
            => sessionsCompleted' = sessionsCompleted
       /\ (IsNum(totalSeconds) /\ totalSeconds.v >= 0)
            => totalSeconds' = totalSeconds]_vars

\* the page was reloaded after the settings were changed to MaxMinutes and 1
\* minutes, with no session counted and 7 seconds in total
C20_Witness ==
  /\ SettingsSaved
  /\ focusDuration = Num(SecondsPerMinute * MaxMinutes)
  /\ breakDuration = Num(SecondsPerMinute)
  /\ localStorage[SessionsKey] = Item(<<"0">>)
  /\ sessionsCompleted = Num(0)
  /\ localStorage[TotalKey] = Item(<<"7">>)
  /\ totalSeconds = Num(7)

====
